---- MODULE Spec2Model ----
(***************************************************************************)
(* Incremental change detection of @static-pages/file-reader.              *)
(*                                                                         *)
(* IncrementalHelper (src/src/incremental-helper.ts) keeps, in a JSON      *)
(* state file, one marker per key: the construction time of the instance   *)
(* that last called close() ("time" strategy) or the git HEAD at close()   *)
(* ("git" strategy).  filter(files) returns the candidates changed since   *)
(* the marker plus the candidates that the trigger rules pull in.          *)
(*                                                                         *)
(* Paths and glob patterns are sequences of segments ("a/b" is <<"a","b">>)*)
(* so that joining a directory and a pattern, and prefixing the git base   *)
(* directory, are real operations on the path.                             *)
(***************************************************************************)
EXTENDS Integers, Sequences, FiniteSets, TLC

VARIABLES
    clock,      \* the wall clock, in milliseconds (what `new Date()` reads)
    mtime,      \* file system: modification time of every file on disk
    commits,    \* git: commits[n] is the set of repository paths commit n changed
    gitDiag,    \* where the git client prints a "fatal: ..." diagnostic
    store,      \* the state file: [exists, data], data maps a key to its marker
    options,    \* the strategy and triggers options the instances are built with
    inst,       \* the IncrementalHelper instance bound to each key
    last,       \* the most recent call and what it returned
    memo,       \* the latest filter() call of an instance not followed by its close()
    hist,       \* history of the runs of one key (recorded in SpecRuns only)
    env,        \* the machine: whether git works here, whether the state file parses
    reader,     \* the iterator of the file reader
    closing     \* the close() calls that have read the state file and not yet written

vars == <<clock, mtime, commits, gitDiag, store, options, inst, last, memo, hist,
          env, reader, closing>>

(***************************************************************************)
(* Bounds of the model.                                                    *)
(***************************************************************************)
MaxTime == 2
MaxCommits == 2
MaxCloses == 2

(***************************************************************************)
(* The directory tree of the tests: tests/input holds file1.txt, file2.txt *)
(* and folder/file3.txt; the git repository is the directory "repo", which *)
(* is also the working directory of the process.                           *)
(***************************************************************************)
gitBaseDir == <<"repo">>
triggersCwd == <<"repo", "tests", "input">>

RepoFiles == { <<"tests", "input", "file1.txt">>,
               <<"tests", "input", "file2.txt">>,
               <<"tests", "input", "folder", "file3.txt">> }

Files == { gitBaseDir \o p : p \in RepoFiles }

F1 == <<"repo", "tests", "input", "file1.txt">>
F2 == <<"repo", "tests", "input", "file2.txt">>
F3 == <<"repo", "tests", "input", "folder", "file3.txt">>

Keys == {"a", "b"}

\* option values: a string, or no value
Str(s) == [type |-> "string", val |-> s]
Undefined == [type |-> "undefined", val |-> ""]
typeof(x) == x.type

\* the pattern option of the reader: a string, or an array of strings
OnePattern(p) == [array |-> FALSE, items |-> <<p>>]
ManyPatterns(ps) == [array |-> TRUE, items |-> ps]

PatternOptions == { OnePattern("**/file*.txt"),
                    ManyPatterns(<<"**/file1.txt", "folder/*">>) }

\* the two readers of the sources: src/index.ts and the one of the README
Readers == {"index.ts", "README.md"}

\* parts.join(sep)
RECURSIVE join(_, _)
join(parts, sep) ==
    IF parts = <<>> THEN ""
    ELSE IF Len(parts) = 1 THEN parts[1]
    ELSE parts[1] \o sep \o join(Tail(parts), sep)

\* path.posix.join(a, b) of two relative paths without '.', '..' or empty
\* segments, which the normalisation would remove: a + '/' + b
posix_join(a, b) == join(<<a, b>>, "/")

\* the key the reader gives its helper: { key: <derived>, ...incremental }.
\* src/index.ts derives path.posix.join(cwd, pattern), the README's reader
\* [cwd, ...patterns].join(':')
helperKey(rd, dir, pattern, incremental) ==
    IF typeof(incremental.key) = "string"
    THEN incremental.key.val
    ELSE IF rd = "index.ts"
    THEN posix_join(dir, pattern.items[1])
    ELSE join(<<dir>> \o pattern.items, ":")

\* every string is accepted as a key, the empty one too
KeyStrings ==
    Keys \cup {""}
         \cup { helperKey("README.md", "tests/input", pattern, [key |-> Undefined]) :
                   pattern \in PatternOptions }
         \cup { helperKey("index.ts", "tests/input", pattern, [key |-> Undefined]) :
                   pattern \in { q \in PatternOptions : ~q.array } }

\* stands where no key is meant
NoKey == "(none)"
Strategies == {"time", "git"}

Range(s) == { s[i] : i \in DOMAIN s }

(***************************************************************************)
(* micromatch / fast-glob, on segments.  A pattern segment is "**"         *)
(* (any number of directories), "*" (any name), "*d*" (a name containing   *)
(* the character d) or a literal name.                                     *)
(***************************************************************************)
Infix == [p \in {"*1*", "*2*", "*3*"} |->
            CASE p = "*1*" -> "1" [] p = "*2*" -> "2" [] p = "*3*" -> "3"]

CharsOf(name) ==
    CASE name = "file1.txt" -> {"f", "i", "l", "e", "1", ".", "t", "x"}
      [] name = "file2.txt" -> {"f", "i", "l", "e", "2", ".", "t", "x"}
      [] name = "file3.txt" -> {"f", "i", "l", "e", "3", ".", "t", "x"}
      [] name = "folder"    -> {"f", "o", "l", "d", "e", "r"}
      [] name = "input"     -> {"i", "n", "p", "u", "t"}
      [] name = "tests"     -> {"t", "e", "s"}
      [] name = "repo"      -> {"r", "e", "p", "o"}
      [] OTHER              -> {}

\* a wildcard matches no "." and no ".." segment
SegMatch(p, name) ==
    CASE p = "*"             -> name \notin {"", ".."}
      [] p \in DOMAIN Infix  -> Infix[p] \in CharsOf(name)
      [] OTHER               -> p = name

RECURSIVE MatchSegs(_, _)
MatchSegs(p, s) ==
    IF p = <<>> THEN s = <<>>
    ELSE IF Head(p) = "**"
         THEN \/ MatchSegs(Tail(p), s)
              \/ s # <<>> /\ Head(s) # ".." /\ MatchSegs(p, Tail(s))
         ELSE /\ s # <<>>
              /\ SegMatch(Head(p), Head(s))
              /\ MatchSegs(Tail(p), Tail(s))

\* micromatch.some(list, patterns): some path of the list matches some pattern
micromatch_some(list, patterns) ==
    \E x \in list : \E p \in patterns : MatchSegs(p, x)

\* micromatch(files, patterns): the entries of files that match some pattern
micromatch(files, patterns) ==
    { x \in Range(files) : \E p \in patterns : MatchSegs(p, x) }

\* glob.sync(pattern, {absolute: true}): the files on disk that match
glob_sync(pattern) == { f \in Files : MatchSegs(pattern, f) }

(***************************************************************************)
(* Markers.  The state file maps a key to a string: a Date's toJSON() text *)
(* or a commit hash.  A marker is [type, val]: "iso" with the milliseconds *)
(* of the date, "rev" with the number of the commit, "text" for a string   *)
(* that is neither, "undefined" for a key the file does not hold.          *)
(***************************************************************************)
Absent == [type |-> "undefined", val |-> 0]
Iso(t) == [type |-> "iso", val |-> t]
Rev(n) == [type |-> "rev", val |-> n]
Garbage == [type |-> "text", val |-> 0]
EmptyText == [type |-> "empty", val |-> 0]

NaN == -1

\* Date.prototype.toJSON: the ISO-8601 text of a date
toJSON(date) == Iso(date)

\* new Date(text): the date an ISO text denotes, an Invalid Date otherwise
NewDate(m) == IF m.type = "iso" THEN m.val ELSE NaN

\* a < b on Dates: false as soon as one of them is an Invalid Date
DateLt(a, b) == a # NaN /\ b # NaN /\ a < b

\* mutant: the marker is used without the test that it is there
Truthy_unchecked(m) == TRUE

\* if (statusData[key]): the key is there and its marker is not the empty string
Truthy(m) == m.type \notin {"undefined", "empty"}

(***************************************************************************)
(* The git client.  git(...) returns the standard output of the command,   *)
(* the empty string when the command cannot be run.  env.git tells whether *)
(* git works here ("ok"), is not installed ("missing"), or runs outside of *)
(* every repository ("norepo").                                            *)
(***************************************************************************)
\* git(): the usage text, on stdout, of a git that is installed
git_usage == env.git # "missing"

\* git('rev-parse', '--show-toplevel') prints "fatal: ..." on stdout
gitBaseDirFatal == env.git = "norepo" /\ gitDiag = "stdout"

head == Len(commits)

\* the marker names a commit of the repository
Resolves(m) == m.type = "rev" /\ m.val \in 0..head

\* the paths that differ between commit n and HEAD
ChangedSince(n) == UNION { commits[j] : j \in (n + 1)..head }

\* git('diff', '--name-only', `${commitHash}..HEAD`): the text on stdout
git_diff(commitHash) ==
    IF env.git = "ok" /\ Resolves(commitHash)
    THEN [fatal |-> FALSE, names |-> ChangedSince(commitHash.val)]
    ELSE [fatal |-> env.git # "missing" /\ gitDiag = "stdout", names |-> {}]

\* text.split(/\r?\n/): an empty text splits into one empty line
SplitLines(text) == IF text.names = {} THEN { <<"">> } ELSE text.names

getGitBaseDir == IF env.git = "ok" THEN gitBaseDir ELSE <<>>
getGitCommitHash == IF env.git = "ok" THEN Rev(head) ELSE EmptyText

Ok(list) == [kind |-> "list", files |-> list, error |-> ""]
Throw(e) == [kind |-> "error", files |-> <<>>, error |-> e]
NoResult == [kind |-> "none", files |-> <<>>, error |-> ""]

\* getGitChangesSince: Ok(lines), or the "Not a valid commit hash" error
getGitChangesSince(commitHash) ==
    LET changes == git_diff(commitHash)
    IN  IF changes.fatal
        THEN [kind |-> "error", lines |-> {}]
        ELSE [kind |-> "lines", lines |-> SplitLines(changes)]

(***************************************************************************)
(* The state file.                                                         *)
(***************************************************************************)
EmptyData == [k \in KeyStrings |-> Absent]

\* mutant: a file that does not parse is read as an empty mapping
JSON_parse_lenient == FALSE

\* JSON.parse(fs.readFileSync(file)) throws a SyntaxError
JSON_parse_throws == store.exists /\ env.json = "corrupt"

\* mutant: one marker for the whole file, the entry of key "b" when it is there
statusData_shared ==
    IF store.exists
    THEN [k \in KeyStrings |-> IF store.data["b"].type # "undefined"
                         THEN store.data["b"] ELSE store.data[k]]
    ELSE EmptyData

\* fs.existsSync(file) ? JSON.parse(fs.readFileSync(file)) : {}
statusData == IF store.exists THEN store.data ELSE EmptyData

(***************************************************************************)
(* filter(): the trigger tables.  A trigger is [pair, source, target]:     *)
(* a [source, target] array (pair) or a single source string.              *)
(***************************************************************************)
\* this.triggers
triggers == options.triggers

addCwd(x) == triggersCwd \o x

\* mutant: a second rule of a source replaces the targets of the first
AddTarget_overwrite(entries, source, target) ==
    IF \E i \in DOMAIN entries : entries[i].source = source
    THEN [i \in DOMAIN entries |->
            IF entries[i].source = source
            THEN [entries[i] EXCEPT !.targets = <<target>>]
            ELSE entries[i]]
    ELSE Append(entries, [source |-> source, targets |-> <<target>>])

AddTarget(entries, source, target) ==
    IF \E i \in DOMAIN entries : entries[i].source = source
    THEN [i \in DOMAIN entries |->
            IF entries[i].source = source
            THEN [entries[i] EXCEPT !.targets = Append(@, target)]
            ELSE entries[i]]
    ELSE Append(entries, [source |-> source, targets |-> <<target>>])

RECURSIVE TriggerSomeFrom(_, _)
TriggerSomeFrom(ts, entries) ==
    IF ts = <<>> THEN entries
    ELSE LET t == Head(ts)
         IN  IF t.pair
             THEN TriggerSomeFrom(Tail(ts),
                      AddTarget(entries, addCwd(t.source), addCwd(t.target)))
             ELSE TriggerSomeFrom(Tail(ts), entries)

\* Object.entries(triggerSome): [source, targets] in insertion order
triggerSome == TriggerSomeFrom(triggers, <<>>)

triggerAll == { addCwd(triggers[i].source) :
                    i \in { j \in DOMAIN triggers : ~triggers[j].pair } }

(***************************************************************************)
(* filter(), "time" strategy.                                              *)
(***************************************************************************)
\* mutant: the comparison of the two dates is turned around
allModifiedSince_reversed(lastBuildTime) ==
    \E pattern \in { triggersCwd \o triggers[i].source :
                        i \in { j \in DOMAIN triggers : ~triggers[j].pair } } :
        \E file \in glob_sync(pattern) : DateLt(mtime[file], lastBuildTime)

\* some file matching an all-activating pattern is modified since last run
allModifiedSince(lastBuildTime) ==
    \E pattern \in triggerAll :
        \E file \in glob_sync(pattern) : DateLt(lastBuildTime, mtime[file])

\* mutant: a source with a target pattern seen earlier is passed over
RECURSIVE triggeredSince_skipping(_, _, _, _, _)
triggeredSince_skipping(entries, files, lastBuildTime, triggered, patternCache) ==
    IF entries = <<>> THEN triggered
    ELSE LET targetPatterns == Range(Head(entries).targets)
             modified == \E file \in glob_sync(Head(entries).source) :
                             DateLt(lastBuildTime, mtime[file])
         IN  IF modified /\ targetPatterns \cap patternCache = {}
             THEN triggeredSince_skipping(Tail(entries), files, lastBuildTime,
                      triggered \cup micromatch(files, targetPatterns),
                      patternCache \cup targetPatterns)
             ELSE triggeredSince_skipping(Tail(entries), files, lastBuildTime,
                      triggered, patternCache)

(* The loop over Object.entries(triggerSome).  For one source pattern the  *)
(* first modified file that finds an unvisited target pattern adds all the *)
(* targets to patternCache, so the later files of that source find none:   *)
(* the inner loop acts once per source pattern.                            *)
RECURSIVE triggeredSince(_, _, _, _, _)
triggeredSince(entries, files, lastBuildTime, triggered, patternCache) ==
    IF entries = <<>> THEN triggered
    ELSE LET sourcePattern == Head(entries).source
             targetPatterns == Range(Head(entries).targets)
             modified == \E file \in glob_sync(sourcePattern) :
                             DateLt(lastBuildTime, mtime[file])
             unvisitedTargetPatterns ==
                 { x \in targetPatterns : x \notin patternCache }
         IN  IF modified /\ unvisitedTargetPatterns # {}
             THEN triggeredSince(Tail(entries), files, lastBuildTime,
                      triggered \cup micromatch(files, unvisitedTargetPatterns),
                      patternCache \cup targetPatterns)
             ELSE triggeredSince(Tail(entries), files, lastBuildTime,
                      triggered, patternCache)

filterTime(key, files) ==
    IF Truthy(statusData[key])
    THEN LET lastBuildTime == NewDate(statusData[key])
             triggered == triggeredSince(triggerSome, files, lastBuildTime, {}, {})
             Keep(x) == DateLt(lastBuildTime, mtime[x]) \/ x \in triggered
         IN  IF allModifiedSince(lastBuildTime)
             THEN Ok(files)
             ELSE Ok(SelectSeq(files, Keep))
    ELSE Ok(files)

(***************************************************************************)
(* filter(), "git" strategy.                                               *)
(***************************************************************************)
\* mutant: the changed paths are left relative to the repository
gitChanges_relative(lines) == lines

\* getGitChangesSince(commitHash).map(x => `${gitBaseDir}/${x}`)
gitChanges(lines) == { getGitBaseDir \o x : x \in lines }

\* mutant: the files a rule activates count as changes for the other rules
RECURSIVE triggeredBy_chained(_, _)
triggeredBy_chained(changes, files) ==
    LET hit == UNION { micromatch(files, Range(triggerSome[i].targets)) :
                         i \in { j \in DOMAIN triggerSome :
                                   micromatch_some(changes, {triggerSome[j].source}) } }
    IN  IF hit \subseteq changes THEN hit
        ELSE hit \cup triggeredBy_chained(changes \cup hit, files)

triggeredBy(changes, files) ==
    UNION { micromatch(files, Range(triggerSome[i].targets)) :
              i \in { j \in DOMAIN triggerSome :
                        micromatch_some(changes, {triggerSome[j].source}) } }

filterGit(key, files) ==
    LET commitHash == statusData[key]
    IN  IF Truthy(commitHash)
        THEN LET since == getGitChangesSince(commitHash)
                 changes == gitChanges(since.lines)
                 triggered == triggeredBy(changes, files)
                 Keep(x) == x \in changes \/ x \in triggered
             IN  IF since.kind = "error"
                 THEN Throw("Git: Not a valid commit hash")
                 ELSE IF micromatch_some(changes, triggerAll)
                      THEN Ok(files)
                      ELSE Ok(SelectSeq(files, Keep))
        ELSE Ok(files)

\* IncrementalHelper.filter(files) of the instance self
filter(self, files) ==
    IF JSON_parse_throws THEN Throw("SyntaxError: JSON")
    ELSE IF self.strategy = "time" THEN filterTime(self.key, files)
    ELSE filterGit(self.key, files)

\* mutant: under the "git" strategy a marker that is there is kept
closeData_once(self) ==
    IF self.strategy = "time"
    THEN [statusData EXCEPT ![self.key] = toJSON(self.startedAt)]
    ELSE IF statusData[self.key].type = "rev" THEN statusData
    ELSE [statusData EXCEPT ![self.key] = getGitCommitHash]

\* mutant: close() writes a mapping that holds its own key only
closeData_overwrite(self) ==
    IF self.strategy = "time"
    THEN [EmptyData EXCEPT ![self.key] = toJSON(self.startedAt)]
    ELSE [EmptyData EXCEPT ![self.key] = getGitCommitHash]

\* mutant: the "time" strategy saves the time of the close() call
closeData_now(self) ==
    IF self.strategy = "time"
    THEN [statusData EXCEPT ![self.key] = toJSON(clock)]
    ELSE [statusData EXCEPT ![self.key] = getGitCommitHash]

\* the data close() writes: the file's mapping with the key's entry replaced
closeData(self) ==
    IF self.strategy = "time"
    THEN [statusData EXCEPT ![self.key] = toJSON(self.startedAt)]
    ELSE [statusData EXCEPT ![self.key] = getGitCommitHash]

(***************************************************************************)
(* The helper with a tracking root (src/unnamed/part_001).  The candidates *)
(* are paths relative to cwd; the changes handed to the triggers are the   *)
(* changed paths under triggersTrackingRoot, relative to cwd.  triggers is *)
(* [kind, rules, includes, returns]: an array of [source, target] rules, a *)
(* function (one that returns a pattern when the changes include a given   *)
(* path, as the functions of the tests do), or undefined.                  *)
(***************************************************************************)
process_cwd == <<"repo">>

\* the file of a sibling directory whose name begins with the name of tests/input
S2 == <<"repo", "tests", "input2", "file2.txt">>

TreePaths == RepoFiles \cup { <<"tests", "input2", "file2.txt">> }
TreeFiles == { gitBaseDir \o p : p \in TreePaths }

RECURSIVE StripSlashes(_)
StripSlashes(str) ==
    IF str # <<>> /\ str[Len(str)] = ""
    THEN StripSlashes(SubSeq(str, 1, Len(str) - 1))
    ELSE str

\* path.resolve(str), without the slashes at its end
normalizePath(str) == StripSlashes(process_cwd \o str)

cwd == normalizePath(options.cwd)

triggersTrackingRoot ==
    IF options.triggersTrackingRoot = <<>>
    THEN cwd
    ELSE normalizePath(options.triggersTrackingRoot)

\* the name a begins the name b
NamePrefix(a, b) == a = "" \/ a = b \/ <<a, b>> \in { <<"input", "input2">> }

\* what is left of the name b after the name a and one more character
NameRest(a, b) == IF <<a, b>> = <<"input", "input2">> THEN "" ELSE b

\* the path lies in the directory: what a glob with that cwd can find
startsWith_dir(str, prefix) ==
    /\ Len(prefix) <= Len(str)
    /\ SubSeq(str, 1, Len(prefix)) = prefix

\* str.startsWith(prefix), on the texts of the two paths
startsWith(str, prefix) ==
    \/ prefix = <<>>
    \/ /\ Len(prefix) <= Len(str)
       /\ SubSeq(str, 1, Len(prefix) - 1) = SubSeq(prefix, 1, Len(prefix) - 1)
       /\ NamePrefix(prefix[Len(prefix)], str[Len(prefix)])

\* str.substring(prefix.length + 1), for a str that starts with prefix
substring(str, prefix) ==
    IF str[Len(prefix)] = prefix[Len(prefix)]
    THEN SubSeq(str, Len(prefix) + 1, Len(str))
    ELSE << NameRest(prefix[Len(prefix)], str[Len(prefix)]) >>
             \o SubSeq(str, Len(prefix) + 1, Len(str))

RECURSIVE CommonLen(_, _)
CommonLen(from, to) ==
    IF from # <<>> /\ to # <<>> /\ Head(from) = Head(to)
    THEN 1 + CommonLen(Tail(from), Tail(to))
    ELSE 0

\* path.relative(from, to)
relative(from, to) ==
    LET c == CommonLen(from, to)
    IN  [i \in 1..(Len(from) - c) |-> ".."] \o SubSeq(to, c + 1, Len(to))

\* readdir(dir): the files below dir, as paths relative to dir
readdir(dir) ==
    { SubSeq(f, Len(dir) + 1, Len(f)) :
        f \in { g \in TreeFiles : Len(dir) < Len(g) /\ SubSeq(g, 1, Len(dir)) = dir } }

\* triggersArrayHandler(triggersArray)(changes)
triggersArrayHandler(triggersArray, changes) ==
    { triggersArray[i].target :
        i \in { j \in DOMAIN triggersArray :
                  micromatch_some(changes, {triggersArray[j].source}) } }

\* triggersCallback?.(changes): the patterns returned, when something is returned
triggersCallback(changes) ==
    CASE options.triggers.kind = "array" ->
             [defined |-> TRUE,
              patterns |-> triggersArrayHandler(options.triggers.rules, changes)]
      [] options.triggers.kind = "function" ->
             IF options.triggers.includes \in changes
             THEN [defined |-> TRUE, patterns |-> {options.triggers.returns}]
             ELSE [defined |-> FALSE, patterns |-> {}]
      [] OTHER -> [defined |-> FALSE, patterns |-> {}]

\* mutant: only the files below cwd are looked at
modifiedBelowRoot_cwd(lastReadTime) ==
    { cwd \o x : x \in { y \in readdir(cwd) : DateLt(lastReadTime, mtime[cwd \o y]) } }

\* readdir(triggersTrackingRoot).filter(x => lastReadTime < mtime)
modifiedBelowRoot(lastReadTime) ==
    { triggersTrackingRoot \o x :
        x \in { y \in readdir(triggersTrackingRoot) :
                  DateLt(lastReadTime, mtime[triggersTrackingRoot \o y]) } }

\* gitChanges.filter(x => (gitBaseDir + '/' + x).startsWith(triggersTrackingRoot))
diffBelowRoot(lines) ==
    { gitBaseDir \o x :
        x \in { y \in lines : startsWith(gitBaseDir \o y, triggersTrackingRoot) } }

\* .map(x => path.relative(this.cwd, ...)): the changes handed to the triggers
changesForTriggers(paths) == { relative(cwd, x) : x \in paths }

filterTrackedTime(key, files) ==
    IF Truthy(statusData[key])
    THEN LET lastReadTime == NewDate(statusData[key])
             triggered == triggersCallback(
                              changesForTriggers(modifiedBelowRoot(lastReadTime)))
             Keep(x) == \/ DateLt(lastReadTime, mtime[cwd \o x])
                        \/ triggered.defined /\ micromatch_some({x}, triggered.patterns)
         IN  Ok(SelectSeq(files, Keep))
    ELSE Ok(files)

filterTrackedGit(key, files) ==
    LET commitHash == statusData[key]
    IN  IF Truthy(commitHash)
        THEN LET since == getGitChangesSince(commitHash)
                 changes == { substring(gitBaseDir \o x, cwd) :
                                x \in { y \in since.lines :
                                          startsWith(gitBaseDir \o y, cwd) } }
                 triggered == triggersCallback(
                                  changesForTriggers(diffBelowRoot(since.lines)))
                 Keep(x) == \/ x \in changes
                            \/ triggered.defined
                                 /\ micromatch_some({x}, triggered.patterns)
             IN  IF since.kind = "error"
                 THEN Throw("Git: Not a valid commit hash")
                 ELSE Ok(SelectSeq(files, Keep))
        ELSE Ok(files)

\* IncrementalHelper.filter(files) of the helper with a tracking root
filterTracked(self, files) ==
    IF JSON_parse_throws THEN Throw("SyntaxError: JSON")
    ELSE IF self.strategy = "time" THEN filterTrackedTime(self.key, files)
    ELSE filterTrackedGit(self.key, files)

(***************************************************************************)
(* Inputs of the model: trigger options and candidate lists.               *)
(***************************************************************************)
P1 == <<"**", "*1*">>
P2 == <<"**", "*2*">>
P3 == <<"**", "*3*">>

Pair(source, target) == [pair |-> TRUE, source |-> source, target |-> target]
All(source) == [pair |-> FALSE, source |-> source, target |-> <<>>]

TriggerConfigs ==
    { <<>>,
      << Pair(P2, P3) >>,
      << All(P2) >>,
      << Pair(P1, P3), Pair(P2, P3), Pair(P2, P1) >>,
      << Pair(P3, P1), All(P1) >>,
      << Pair(P1, P2), Pair(P2, P3) >> }

CandLists == { <<F1, F2, F3>>, <<F3, F1>>, <<F2, F3, F2>> }

\* glob.sync(pattern) of the reader: every file, or the files of folder/
GlobLists == { <<F1, F2, F3>>, <<F3>> }

CommitChoices == { {p} : p \in RepoFiles }

NoInstance == [alive |-> FALSE, key |-> NoKey, strategy |-> "time", startedAt |-> 0]

\* History of the runs of hist.key (NoKey: not recorded).  touched: the files written
\* since its instance was built; owed: touched, as it was when its instance
\* closed; fresh: the instance was built after that close and has not closed;
\* unseen: the files committed since the latest filter() of its instance
NoHistory == [key |-> NoKey, touched |-> {}, unseen |-> {}, owed |-> {},
              fresh |-> FALSE]

\* a machine where git works, inside the repository, and the state file parses
Works == [git |-> "ok", json |-> "ok"]

\* no iterator of the reader is open
NoReader == [state |-> "none", incremental |-> FALSE, key |-> NoKey,
             filtered |-> <<>>, files |-> <<>>, read |-> <<>>, closes |-> 0,
             options |-> [reader |-> "README.md", cwd |-> "",
                          pattern |-> OnePattern(""), key |-> Undefined]]

\* no close() call is between its read and its write of the state file
NoClosing == [k \in KeyStrings |->
                [reading |-> FALSE, data |-> EmptyData, written |-> FALSE]]

NoCall == [op |-> "none", key |-> NoKey, files |-> <<>>, out |-> NoResult]
NoMemo == [valid |-> FALSE, key |-> NoKey, files |-> <<>>, out |-> NoResult,
           dirty |-> FALSE]

(***************************************************************************)
(* The environment: time passes, files are written, commits are made.      *)
(***************************************************************************)
\* the "git" strategy reads neither the clock nor a modification time, and the
\* "time" strategy never asks git: each strategy runs with the other's
\* environment left as it is
Tick ==
    /\ options.strategy = "time"
    /\ clock < MaxTime
    /\ clock' = clock + 1
    /\ last' = [NoCall EXCEPT !.op = "tick"]
    /\ UNCHANGED <<mtime, commits, gitDiag, store, options, inst, memo, hist>>
    /\ UNCHANGED <<env, reader, closing>>

Modify(f) ==
    /\ options.strategy = "time"
    /\ mtime' = [mtime EXCEPT ![f] = clock]
    /\ last' = [NoCall EXCEPT !.op = "modify"]
    /\ memo' = [memo EXCEPT !.dirty = memo.valid]
    /\ hist' = IF hist.key # NoKey /\ inst[hist.key].alive
               THEN [hist EXCEPT !.touched = @ \cup {f}]
               ELSE hist
    /\ UNCHANGED <<clock, commits, gitDiag, store, options, inst>>
    /\ UNCHANGED <<env, reader, closing>>

Commit(changed) ==
    /\ options.strategy = "git"
    /\ Len(commits) < MaxCommits
    /\ commits' = Append(commits, changed)
    /\ last' = [NoCall EXCEPT !.op = "commit"]
    /\ memo' = [memo EXCEPT !.dirty = memo.valid]
    /\ hist' = IF hist.key # NoKey /\ memo.valid /\ memo.key = hist.key
               THEN [hist EXCEPT !.unseen = @ \cup { gitBaseDir \o f : f \in changed }]
               ELSE hist
    /\ UNCHANGED <<clock, mtime, gitDiag, store, options, inst>>
    /\ UNCHANGED <<env, reader, closing>>

(***************************************************************************)
(* The calls on IncrementalHelper.                                         *)
(***************************************************************************)
\* "Test if git works properly in this repository": made whenever the strategy
\* option is given, fails with "Git is not installed" or "Not a git repository"
probeFails(strategy) ==
    strategy # "undefined" /\ (~git_usage \/ gitBaseDirFatal)

\* new IncrementalHelper({ key, strategy }) with a key that is a string
Construct(key, strategy) ==
    /\ strategy \in {"undefined", options.strategy}
    /\ strategy = "undefined" => options.strategy = "time"
    /\ IF probeFails(strategy)
       THEN /\ last' = [NoCall EXCEPT !.op = "new", !.key = key,
                                      !.out = Throw("Incremental build: Git")]
            /\ UNCHANGED <<inst, memo, hist>>
       ELSE /\ inst' = [inst EXCEPT ![key] =
                         [alive |-> TRUE, key |-> key,
                          strategy |-> IF strategy = "undefined" THEN "time"
                                       ELSE strategy,
                          startedAt |-> clock]]
            /\ last' = [NoCall EXCEPT !.op = "new", !.key = key]
            /\ memo' = IF memo.key = key THEN NoMemo ELSE memo
            /\ hist' = IF hist.key = key
                       THEN [hist EXCEPT !.touched = {}, !.unseen = {}, !.fresh = TRUE]
                       ELSE hist
    /\ UNCHANGED <<clock, mtime, commits, gitDiag, store, options>>
    /\ UNCHANGED <<env, reader, closing>>

\* mutant: filter() saves the marker of the instance, as close() does
Filter_saves(key, files) ==
    /\ inst[key].alive
    /\ LET out == filter(inst[key], files)
       IN  /\ last' = [op |-> "filter", key |-> key, files |-> files, out |-> out]
           /\ memo' = [valid |-> TRUE, key |-> key, files |-> files, out |-> out,
                       dirty |-> FALSE]
    /\ store' = [exists |-> TRUE,
                 data |-> [statusData EXCEPT ![key] =
                             IF inst[key].strategy = "time"
                             THEN toJSON(inst[key].startedAt)
                             ELSE getGitCommitHash]]
    /\ UNCHANGED <<clock, mtime, commits, gitDiag, options, inst, hist>>
    /\ UNCHANGED <<env, reader, closing>>

Filter(key, files) ==
    /\ inst[key].alive
    /\ LET out == filter(inst[key], files)
       IN  /\ last' = [op |-> "filter", key |-> key, files |-> files, out |-> out]
           /\ memo' = [valid |-> TRUE, key |-> key, files |-> files, out |-> out,
                       dirty |-> FALSE]
    /\ hist' = IF hist.key = key THEN [hist EXCEPT !.unseen = {}] ELSE hist
    /\ UNCHANGED <<clock, mtime, commits, gitDiag, store, options, inst>>
    /\ UNCHANGED <<env, reader, closing>>

\* close(): the read, the assignment and the write, with no other process
\* between them; nothing is written when the read throws
Close(key) ==
    /\ inst[key].alive
    /\ IF JSON_parse_throws
       THEN /\ last' = [NoCall EXCEPT !.op = "close", !.key = key,
                                      !.out = Throw("SyntaxError: JSON")]
            /\ UNCHANGED <<store, memo, hist>>
       ELSE /\ store' = [exists |-> TRUE, data |-> closeData(inst[key])]
            /\ last' = [NoCall EXCEPT !.op = "close", !.key = key]
            /\ memo' = IF memo.key = key THEN NoMemo ELSE memo
            /\ hist' = IF hist.key = key
                       THEN [hist EXCEPT !.owed = hist.touched \cup hist.unseen,
                                         !.fresh = FALSE]
                       ELSE hist
    /\ UNCHANGED <<clock, mtime, commits, gitDiag, options, inst>>
    /\ UNCHANGED <<env, reader, closing>>

(***************************************************************************)
(* Spec: runs of instances over a changing file system and repository.     *)
(***************************************************************************)
Init ==
    /\ clock = 0
    /\ mtime = [f \in Files |-> 0]
    /\ commits = <<>>
    /\ options \in [strategy : Strategies, triggers : { <<>>, << Pair(P2, P3) >> }]
    /\ gitDiag \in IF options.strategy = "git" THEN {"stdout", "stderr"} ELSE {"stderr"}
    /\ store \in { [exists |-> FALSE, data |-> EmptyData],
                   [exists |-> TRUE, data |-> [EmptyData EXCEPT !["b"] = Garbage]] }
    /\ inst = [k \in KeyStrings |-> NoInstance]
    /\ last = NoCall
    /\ memo = NoMemo
    /\ hist = NoHistory
    /\ env = Works
    /\ reader = NoReader
    /\ closing = NoClosing

Next ==
    \/ Tick
    \/ \E f \in Files : Modify(f)
    \/ \E changed \in CommitChoices : Commit(changed)
    \/ \E key \in Keys : \E strategy \in {"undefined", "time", "git"} :
           Construct(key, strategy)
    \/ \E key \in Keys : \E files \in GlobLists : Filter(key, files)
    \/ \E key \in Keys : Close(key)

Spec == Init /\ [][Next]_vars

(***************************************************************************)
(* SpecFilter: filter() as a function of its inputs.  The initial state    *)
(* draws the state file, the file system or repository, the trigger rules; *)
(* the only step is a filter() call of the instance of key "a".            *)
(***************************************************************************)
RECURSIVE Histories(_)
Histories(n) ==
    IF n = 0 THEN { <<>> }
    ELSE Histories(n - 1) \cup
         { Append(h, c) : h \in { x \in Histories(n - 1) : Len(x) = n - 1 },
                          c \in CommitChoices }

\* state files: none, one without the key, one with a marker for the key
StateFiles(strategy) ==
    { [exists |-> FALSE, data |-> EmptyData],
      [exists |-> TRUE, data |-> [EmptyData EXCEPT !["b"] = Garbage]] }
    \cup { [exists |-> TRUE, data |-> [EmptyData EXCEPT !["a"] = m]] :
             m \in {Garbage} \cup
                   IF strategy = "time"
                   THEN { Iso(t) : t \in 0..MaxTime }
                   ELSE { Rev(n) : n \in 0..MaxCommits } }

InitFilter ==
    /\ options \in [strategy : Strategies, triggers : TriggerConfigs]
    /\ clock \in IF options.strategy = "time" THEN 0..MaxTime ELSE {0}
    /\ mtime \in [Files -> 0..clock]
    /\ commits \in IF options.strategy = "git" THEN Histories(MaxCommits) ELSE { <<>> }
    /\ gitDiag \in IF options.strategy = "git" THEN {"stdout", "stderr"} ELSE {"stderr"}
    /\ store \in StateFiles(options.strategy)
    /\ inst = [k \in KeyStrings |->
                 IF k = "a"
                 THEN [alive |-> TRUE, key |-> k, strategy |-> options.strategy,
                       startedAt |-> clock]
                 ELSE NoInstance]
    /\ last = NoCall
    /\ memo = NoMemo
    /\ hist = NoHistory
    /\ env = Works
    /\ reader = NoReader
    /\ closing = NoClosing

NextFilter == \E files \in CandLists : Filter("a", files)

SpecFilter == InitFilter /\ [][NextFilter]_vars

(***************************************************************************)
(* SpecRuns: the successive runs of one key under the "time" strategy,     *)
(* with the history of what was written during each run.                   *)
(***************************************************************************)
InitRuns ==
    /\ clock = 0
    /\ mtime = [f \in Files |-> 0]
    /\ commits = <<>>
    /\ gitDiag = "stderr"
    /\ options \in [strategy : {"time"}, triggers : { <<>>, << Pair(P2, P3) >> }]
    /\ store = [exists |-> FALSE, data |-> EmptyData]
    /\ inst = [k \in KeyStrings |-> NoInstance]
    /\ last = NoCall
    /\ memo = NoMemo
    /\ hist = [NoHistory EXCEPT !.key = "a"]
    /\ env = Works
    /\ reader = NoReader
    /\ closing = NoClosing

NextRuns ==
    \/ Tick
    \/ \E f \in Files : Modify(f)
    \/ \E strategy \in {"undefined", "time"} : Construct("a", strategy)
    \/ \E files \in GlobLists : Filter("a", files)
    \/ Close("a")

SpecRuns == InitRuns /\ [][NextRuns]_vars

(***************************************************************************)
(* SpecGitRuns: the successive runs of one key under the "git" strategy,   *)
(* with the history of what was committed during each run.                 *)
(***************************************************************************)
InitGitRuns ==
    /\ clock = 0
    /\ mtime = [f \in Files |-> 0]
    /\ commits = <<>>
    /\ gitDiag = "stderr"
    /\ options \in [strategy : {"git"}, triggers : { <<>>, << Pair(P2, P3) >> }]
    /\ store = [exists |-> FALSE, data |-> EmptyData]
    /\ inst = [k \in KeyStrings |-> NoInstance]
    /\ last = NoCall
    /\ memo = NoMemo
    /\ hist = [NoHistory EXCEPT !.key = "a"]
    /\ env = Works
    /\ reader = NoReader
    /\ closing = NoClosing

NextGitRuns ==
    \/ \E changed \in CommitChoices : Commit(changed)
    \/ Construct("a", "git")
    \/ \E files \in GlobLists : Filter("a", files)
    \/ Close("a")

SpecGitRuns == InitGitRuns /\ [][NextGitRuns]_vars

(***************************************************************************)
(* SpecReader: the file reader.  [Symbol.iterator]() globs the files and,  *)
(* with the incremental option, builds a helper and filters them; next()   *)
(* takes the first file left, or closes the helper when none is left.      *)
(* reader.filtered is the list the iterator started with, reader.read the  *)
(* files it has yielded, reader.closes the close() calls it has made.      *)
(***************************************************************************)
\* the incremental option: false, true, or an object with a key
Off == [on |-> FALSE, key |-> Undefined]
On == [on |-> TRUE, key |-> Undefined]
WithKey(key) == [on |-> TRUE, key |-> Str(key)]

Iterator(rd, dir, pattern, incremental, strategy, files) ==
    /\ rd = "index.ts" => ~pattern.array
    /\ strategy \in {"undefined", options.strategy}
    /\ strategy = "undefined" => options.strategy = "time"
    /\ IF ~incremental.on
       THEN /\ reader' = [NoReader EXCEPT !.state = "open", !.filtered = files,
                                          !.files = files]
            /\ last' = [NoCall EXCEPT !.op = "iterator"]
            /\ UNCHANGED <<inst, store>>
       ELSE IF probeFails(strategy)
       THEN /\ reader' = NoReader
            /\ last' = [NoCall EXCEPT !.op = "iterator",
                                      !.key = helperKey(rd, dir, pattern, incremental),
                                      !.out = Throw("Incremental build: Git")]
            /\ UNCHANGED <<inst, store>>
       ELSE LET key == helperKey(rd, dir, pattern, incremental)
                self == [alive |-> TRUE, key |-> key,
                         strategy |-> IF strategy = "undefined" THEN "time"
                                      ELSE strategy,
                         startedAt |-> clock]
                out == filter(self, files)
            IN  /\ inst' = [inst EXCEPT ![key] = self]
                /\ last' = [op |-> "iterator", key |-> key, files |-> files,
                            out |-> out]
                /\ reader' = IF out.kind = "list"
                             THEN [NoReader EXCEPT !.state = "open",
                                                   !.incremental = TRUE,
                                                   !.key = key,
                                                   !.options =
                                                       [reader |-> rd,
                                                        cwd |-> dir,
                                                        pattern |-> pattern,
                                                        key |-> incremental.key],
                                                   !.filtered = out.files,
                                                   !.files = out.files]
                             ELSE NoReader
                /\ UNCHANGED store
    /\ UNCHANGED <<clock, mtime, commits, gitDiag, options, memo, hist, env, closing>>

\* mutant: every next() call closes the helper
ReaderNext_eager ==
    /\ reader.state = "open" /\ reader.incremental
    /\ reader' = IF reader.files # <<>>
                 THEN [reader EXCEPT !.files = Tail(@),
                                     !.read = Append(@, Head(reader.files))]
                 ELSE [reader EXCEPT !.state = "done"]
    /\ last' = [NoCall EXCEPT !.op = "next", !.key = reader.key]
    /\ store' = [exists |-> TRUE, data |-> closeData(inst[reader.key])]
    /\ UNCHANGED <<clock, mtime, commits, gitDiag, options, inst, memo, hist,
                   env, closing>>

\* next() of the iterator: files.shift(), and close() when there is no file
ReaderNext ==
    /\ reader.state \in {"open", "done"}
    /\ IF reader.files # <<>>
       THEN /\ reader' = [reader EXCEPT !.files = Tail(@),
                                        !.read = Append(@, Head(reader.files))]
            /\ last' = [NoCall EXCEPT !.op = "next", !.key = reader.key,
                                      !.files = << Head(reader.files) >>]
            /\ UNCHANGED store
       ELSE IF ~reader.incremental
       THEN /\ reader.state = "open"
            /\ reader' = [reader EXCEPT !.state = "done"]
            /\ last' = [NoCall EXCEPT !.op = "next"]
            /\ UNCHANGED store
       ELSE /\ reader.closes < MaxCloses
            /\ reader' = [reader EXCEPT !.state = "done", !.closes = @ + 1]
            /\ IF JSON_parse_throws
               THEN /\ last' = [NoCall EXCEPT !.op = "next", !.key = reader.key,
                                              !.out = Throw("SyntaxError: JSON")]
                    /\ UNCHANGED store
               ELSE /\ last' = [NoCall EXCEPT !.op = "next", !.key = reader.key]
                    /\ store' = [exists |-> TRUE,
                                 data |-> closeData(inst[reader.key])]
    /\ UNCHANGED <<clock, mtime, commits, gitDiag, options, inst, memo, hist,
                   env, closing>>

InitReader ==
    /\ clock = 0
    /\ mtime = [f \in Files |-> 0]
    /\ commits = <<>>
    /\ options \in [strategy : Strategies, triggers : { <<>>, << Pair(P2, P3) >> }]
    /\ gitDiag = "stderr"
    /\ store \in { [exists |-> FALSE, data |-> EmptyData],
                   [exists |-> TRUE, data |-> [EmptyData EXCEPT !["b"] = Garbage]] }
    /\ inst = [k \in KeyStrings |-> NoInstance]
    /\ last = NoCall
    /\ memo = NoMemo
    /\ hist = NoHistory
    /\ env = Works
    /\ reader = NoReader
    /\ closing = NoClosing

NextReader ==
    \/ Tick
    \/ \E f \in Files : Modify(f)
    \/ \E changed \in CommitChoices : Commit(changed)
    \/ \E strategy \in {"undefined", "time", "git"} : \E files \in GlobLists :
           \E incremental \in { Off, WithKey("a") } :
               Iterator("README.md", "tests/input", OnePattern("**/file*.txt"),
                        incremental, strategy, files)
    \/ ReaderNext

SpecReader == InitReader /\ [][NextReader]_vars

(***************************************************************************)
(* SpecKeys: runs of the two readers with and without a key option, from a *)
(* directory that has no state file, under the default strategy.           *)
(***************************************************************************)
InitKeys ==
    /\ clock = 0
    /\ mtime = [f \in Files |-> 0]
    /\ commits = <<>>
    /\ options = [strategy |-> "time", triggers |-> <<>>]
    /\ gitDiag = "stderr"
    /\ store = [exists |-> FALSE, data |-> EmptyData]
    /\ inst = [k \in KeyStrings |-> NoInstance]
    /\ last = NoCall
    /\ memo = NoMemo
    /\ hist = NoHistory
    /\ env = Works
    /\ reader = NoReader
    /\ closing = NoClosing

NextKeys ==
    \/ \E rd \in Readers : \E pattern \in PatternOptions : \E files \in GlobLists :
           \E incremental \in { Off, On, WithKey("a") } :
               Iterator(rd, "tests/input", pattern, incremental, "undefined", files)
    \/ ReaderNext

SpecKeys == InitKeys /\ [][NextKeys]_vars

(***************************************************************************)
(* SpecRace: close() calls of several processes on one state file.  The    *)
(* read of the file and the write of the file are two steps, and steps of  *)
(* other processes may come between them.  closing[key].data is what the   *)
(* close() of the key has read; closing[key].written tells that a close()  *)
(* of the key has written.                                                 *)
(***************************************************************************)
\* data[this.key] = ...: the marker of the instance put into the data read
assignMarker(self, data) ==
    IF self.strategy = "time"
    THEN [data EXCEPT ![self.key] = toJSON(self.startedAt)]
    ELSE [data EXCEPT ![self.key] = getGitCommitHash]

\* close(), up to the end of its read of the state file
CloseRead(key) ==
    /\ inst[key].alive
    /\ ~closing[key].reading
    /\ IF JSON_parse_throws
       THEN /\ last' = [NoCall EXCEPT !.op = "close_read", !.key = key,
                                      !.out = Throw("SyntaxError: JSON")]
            /\ UNCHANGED closing
       ELSE /\ last' = [NoCall EXCEPT !.op = "close_read", !.key = key]
            /\ closing' = [closing EXCEPT ![key].reading = TRUE,
                                          ![key].data = statusData]
    /\ UNCHANGED <<clock, mtime, commits, gitDiag, store, options, inst, memo,
                   hist, env, reader>>

\* mutant: the write merges the marker into the file as it is at the write
CloseWrite_merging(key) ==
    /\ closing[key].reading
    /\ store' = [exists |-> TRUE, data |-> assignMarker(inst[key], statusData)]
    /\ closing' = [closing EXCEPT ![key].reading = FALSE, ![key].written = TRUE]
    /\ last' = [NoCall EXCEPT !.op = "close_write", !.key = key]
    /\ UNCHANGED <<clock, mtime, commits, gitDiag, options, inst, memo, hist,
                   env, reader>>

\* close(), from the assignment to the end of fs.writeFileSync
CloseWrite(key) ==
    /\ closing[key].reading
    /\ store' = [exists |-> TRUE,
                 data |-> assignMarker(inst[key], closing[key].data)]
    /\ closing' = [closing EXCEPT ![key].reading = FALSE, ![key].written = TRUE]
    /\ last' = [NoCall EXCEPT !.op = "close_write", !.key = key]
    /\ UNCHANGED <<clock, mtime, commits, gitDiag, options, inst, memo, hist,
                   env, reader>>

InitRace ==
    /\ clock = 0
    /\ mtime = [f \in Files |-> 0]
    /\ commits = <<>>
    /\ options \in [strategy : Strategies, triggers : { <<>> }]
    /\ gitDiag = "stderr"
    /\ store \in { [exists |-> FALSE, data |-> EmptyData],
                   [exists |-> TRUE, data |-> [EmptyData EXCEPT !["b"] = Garbage]] }
    /\ inst = [k \in KeyStrings |-> NoInstance]
    /\ last = NoCall
    /\ memo = NoMemo
    /\ hist = NoHistory
    /\ env = Works
    /\ reader = NoReader
    /\ closing = NoClosing

NextRace ==
    \/ Tick
    \/ \E changed \in CommitChoices : Commit(changed)
    \/ \E key \in Keys : \E strategy \in {"undefined", "time", "git"} :
           ~closing[key].reading /\ Construct(key, strategy)
    \/ \E key \in Keys : CloseRead(key)
    \/ \E key \in Keys : CloseWrite(key)

SpecRace == InitRace /\ [][NextRace]_vars

(***************************************************************************)
(* SpecTracked: filter() of the helper with a tracking root, as a function *)
(* of its inputs: the directories, the triggers, the state file, the file  *)
(* system or the repository.                                               *)
(***************************************************************************)
NoTriggers == [kind |-> "undefined", rules |-> <<>>, includes |-> <<>>,
               returns |-> <<>>]
Rules(rules) == [NoTriggers EXCEPT !.kind = "array", !.rules = rules]
Callback(includes, returns) ==
    [NoTriggers EXCEPT !.kind = "function", !.includes = includes,
                       !.returns = returns]

TrackedTriggers ==
    { NoTriggers,
      Rules(<< Pair(P2, P3) >>),
      Rules(<< Pair(<<"..", "*2*">>, <<"*">>) >>),
      Rules(<< Pair(<<"..", "input2", "*">>, P1) >>),
      Callback(<<"..", "file2.txt">>, <<"*">>) }

\* cwd and triggersTrackingRoot as given (<<>>: not given); "tests/input/" ends
\* with a slash
TrackedDirs ==
    { [cwd |-> <<"tests", "input", "folder">>, root |-> <<"tests", "input">>],
      [cwd |-> <<"tests", "input">>, root |-> <<>>],
      [cwd |-> <<"tests", "input", "">>, root |-> <<"tests">>] }

\* the candidate lists of a reader of cwd: paths relative to cwd
TrackedLists ==
    { [i \in DOMAIN l |-> relative(cwd, l[i])] :
        l \in { m \in { <<F1, F2, F3>>, <<F3, F1>>, <<F3>> } :
                  \A i \in DOMAIN m : startsWith_dir(m[i], cwd) } }

RECURSIVE TreeHistories(_)
TreeHistories(n) ==
    IF n = 0 THEN { <<>> }
    ELSE TreeHistories(n - 1) \cup
         { Append(h, {c}) : h \in { x \in TreeHistories(n - 1) : Len(x) = n - 1 },
                            c \in TreePaths }

FilterTracked(key, files) ==
    /\ inst[key].alive
    /\ LET out == filterTracked(inst[key], files)
       IN  /\ last' = [op |-> "filter", key |-> key, files |-> files, out |-> out]
           /\ memo' = [valid |-> TRUE, key |-> key, files |-> files, out |-> out,
                       dirty |-> FALSE]
    /\ UNCHANGED <<clock, mtime, commits, gitDiag, store, options, inst, hist>>
    /\ UNCHANGED <<env, reader, closing>>

InitTracked ==
    /\ \E strategy \in Strategies, ts \in TrackedTriggers, dirs \in TrackedDirs :
           options = [strategy |-> strategy, triggers |-> ts, cwd |-> dirs.cwd,
                      triggersTrackingRoot |-> dirs.root]
    /\ clock = MaxTime
    /\ mtime \in IF options.strategy = "time" THEN [TreeFiles -> 0..MaxTime]
                 ELSE { [f \in TreeFiles |-> 0] }
    /\ commits \in IF options.strategy = "git" THEN TreeHistories(MaxCommits)
                   ELSE { <<>> }
    /\ gitDiag \in IF options.strategy = "git" THEN {"stdout", "stderr"} ELSE {"stderr"}
    /\ store \in StateFiles(options.strategy)
    /\ inst = [k \in KeyStrings |->
                 IF k = "a"
                 THEN [alive |-> TRUE, key |-> k, strategy |-> options.strategy,
                       startedAt |-> clock]
                 ELSE NoInstance]
    /\ last = NoCall
    /\ memo = NoMemo
    /\ hist = NoHistory
    /\ env = Works
    /\ reader = NoReader
    /\ closing = NoClosing

NextTracked == \E files \in TrackedLists : FilterTracked("a", files)

SpecTracked == InitTracked /\ [][NextTracked]_vars

(***************************************************************************)
(* SpecFaults: the calls on a machine that may lack git, in a directory    *)
(* that may be outside of every repository, with a state file that may not *)
(* parse, and with any value given as the key option.                      *)
(***************************************************************************)
KeyOptions == { Str("a"), Str(""), Undefined }

\* the constructor: the key check, then the rest of it
New(key, strategy) ==
    IF typeof(key) # "string"
    THEN /\ strategy \in {"undefined", options.strategy}
         /\ last' = [NoCall EXCEPT !.op = "new",
                                   !.out = Throw("TypeError: key")]
         /\ UNCHANGED <<clock, mtime, commits, gitDiag, store, options, inst,
                        memo, hist, env, reader, closing>>
    ELSE Construct(key.val, strategy)

InitFaults ==
    /\ clock = 0
    /\ mtime = [f \in Files |-> 0]
    /\ commits = <<>>
    /\ options \in [strategy : Strategies, triggers : { <<>> }]
    /\ env \in [git : {"ok", "missing", "norepo"}, json : {"ok", "corrupt"}]
    /\ gitDiag \in IF options.strategy = "git" \/ env.git = "norepo"
                   THEN {"stdout", "stderr"} ELSE {"stderr"}
    /\ store \in { [exists |-> FALSE, data |-> EmptyData],
                   [exists |-> TRUE, data |-> [EmptyData EXCEPT !["a"] = Garbage]] }
    /\ env.json = "corrupt" => store.exists
    /\ inst = [k \in KeyStrings |-> NoInstance]
    /\ last = NoCall
    /\ memo = NoMemo
    /\ hist = NoHistory
    /\ reader = NoReader
    /\ closing = NoClosing

NextFaults ==
    \/ Tick
    \/ \E changed \in CommitChoices : Commit(changed)
    \/ \E key \in KeyOptions : \E strategy \in {"undefined", "time", "git"} :
           New(key, strategy)
    \/ \E key \in {"a", ""} : \E files \in GlobLists : Filter(key, files)
    \/ \E key \in {"a", ""} : Close(key)

SpecFaults == InitFaults /\ [][NextFaults]_vars

(***************************************************************************)
(* What the claims speak of.                                               *)
(***************************************************************************)
\* the state file holds no marker for the key
MarkerAbsent(key) == ~store.exists \/ store.data[key].type = "undefined"

\* the state just after a filter() call that returned a list
Filtered == last.op = "filter" /\ last.out.kind = "list"

\* the ChangeSet: what changed since the marker of the key
Delta(key) ==
    LET m == store.data[key]
    IN  IF inst[key].strategy = "time"
        THEN { f \in Files : m.type = "iso" /\ mtime[f] > m.val }
        ELSE IF m.type = "rev" /\ m.val <= Len(commits)
             THEN { <<"repo">> \o p :
                      p \in UNION { commits[j] : j \in (m.val + 1)..Len(commits) } }
             ELSE {}

\* a rule whose source pattern, taken in the working directory, matches a change
Fires(rule, key) ==
    \E d \in Delta(key) : MatchSegs(<<"repo", "tests", "input">> \o rule.source, d)

SomeRules == { triggers[i] : i \in { j \in DOMAIN triggers : triggers[j].pair } }
AllRules == { triggers[i] : i \in { j \in DOMAIN triggers : ~triggers[j].pair } }

AllFires(key) == \E rule \in AllRules : Fires(rule, key)

\* the candidate is a target of a some-activating rule that fires
Pulled(x, key) ==
    \E rule \in SomeRules :
        Fires(rule, key) /\ MatchSegs(<<"repo", "tests", "input">> \o rule.target, x)

IsSubseq(s, t) ==
    \E idx \in [1..Len(s) -> 1..Len(t)] :
        /\ \A i \in 1..Len(s) : s[i] = t[idx[i]]
        /\ \A i, j \in 1..Len(s) : i < j => idx[i] < idx[j]

(* C1: with no marker for the key (no state file, or a file without the   *)
(* key) filter(C) returns C itself, under both strategies and whatever     *)
(* the trigger rules.                                                      *)
C1_AbsentMarkerIdentity ==
    (last.op = "filter" /\ MarkerAbsent(last.key))
        => (last.out.kind = "list" /\ last.out.files = last.files)

C1_Witness ==
    /\ last.op = "filter"
    /\ store.exists /\ MarkerAbsent(last.key)
    /\ inst[last.key].strategy = "git"
    /\ triggers = << Pair(P2, P3) >>
    /\ commits # <<>>
    /\ last.out.files = <<F2, F3, F2>>

(* C2: with a marker for the key, every candidate that is in the ChangeSet *)
(* is in the list filter returns, whatever rules are configured.           *)
C2_ChangedCandidatesKept ==
    (Filtered /\ ~MarkerAbsent(last.key))
        => \A i \in DOMAIN last.files :
               last.files[i] \in Delta(last.key)
                   => last.files[i] \in Range(last.out.files)

C2_Witness ==
    /\ Filtered /\ ~MarkerAbsent(last.key)
    /\ Delta(last.key) = {F3}
    /\ triggers = << Pair(P3, P1), All(P1) >>
    /\ last.files = <<F3, F1>>
    /\ last.out.files = <<F3, F1>>

(* C3: with a marker and no all-activating rule firing, filter(C) is the   *)
(* subsequence of C of the entries that are in the ChangeSet or match the  *)
(* target of a some-activating rule whose source matches a changed path.   *)
C3_Expected(key, files) ==
    LET Keep(x) == x \in Delta(key) \/ Pulled(x, key)
    IN  SelectSeq(files, Keep)

C3_ExactSubsequence ==
    (Filtered /\ ~MarkerAbsent(last.key) /\ ~AllFires(last.key))
        => /\ last.out.files = C3_Expected(last.key, last.files)
           /\ IsSubseq(last.out.files, last.files)

C3_Witness ==
    /\ Filtered /\ ~MarkerAbsent(last.key)
    /\ triggers = << Pair(P2, P3) >>
    /\ Delta(last.key) = {F2}
    /\ last.files = <<F1, F2, F3>>
    /\ last.out.files = <<F2, F3>>

(* C4: with a marker and a changed path matching the source of an         *)
(* all-activating rule, filter(C) returns the whole list C.                *)
C4_AllActivatingReturnsAll ==
    (Filtered /\ ~MarkerAbsent(last.key) /\ AllFires(last.key))
        => last.out.files = last.files

C4_Witness ==
    /\ Filtered /\ ~MarkerAbsent(last.key)
    /\ triggers = << All(P2) >>
    /\ Delta(last.key) = {F2}
    /\ last.files = <<F1, F2, F3>>
    /\ last.out.files = <<F1, F2, F3>>

\* the entry of a key in a state file
Entry(file, key) == IF file.exists THEN file.data[key] ELSE Absent

\* the marker an instance is to save: its construction time, or the HEAD
OwnMarker(key) ==
    IF inst[key].strategy = "time"
    THEN [type |-> "iso", val |-> inst[key].startedAt]
    ELSE [type |-> "rev", val |-> Len(commits)]

(* C5: a step changes the entry of a key only when it is the close() of    *)
(* the instance of that key, and the entry is then the marker of that      *)
(* instance; every other entry of the state file is as it was.             *)
C5_CloseChangesOwnEntryOnly ==
    [][\A k \in Keys :
          Entry(store', k) # Entry(store, k)
              => /\ last'.op = "close" /\ last'.key = k
                 /\ Entry(store', k) = OwnMarker(k)]_vars

C5_Witness ==
    /\ last.op = "close" /\ last.key = "a"
    /\ store.data["a"].type = "iso"
    /\ store.data["b"].type = "iso"
    /\ inst["b"].alive
    /\ store.data["b"] = OwnMarker("b")
    /\ store.data["a"] # store.data["b"]

(* C6 (as claimed): a candidate written after an instance was built and    *)
(* before that instance closed is returned by filter() of the next         *)
(* instance of the key.                                                    *)
C6_NoModificationLost ==
    (last.op = "filter" /\ last.key = hist.key /\ hist.fresh)
        => \A f \in hist.owed :
               f \in Range(last.files) => f \in Range(last.out.files)

(* C7: under the "time" strategy close() saves the time at which the       *)
(* instance was built: a construction records the clock, no later step     *)
(* changes what it recorded, and every close() saves exactly that.         *)
C7_MarkerIsConstructionTime ==
    [][/\ last'.op = "new" => inst'[last'.key].startedAt = clock
       /\ \A k \in Keys :
              (inst[k].alive /\ ~(last'.op = "new" /\ last'.key = k))
                  => inst'[k].startedAt = inst[k].startedAt
       /\ (last'.op = "close" /\ inst[last'.key].strategy = "time")
              => Entry(store', last'.key)
                     = [type |-> "iso", val |-> inst[last'.key].startedAt]]_vars

C7_Witness ==
    /\ last.op = "close" /\ last.key = "a"
    /\ inst["a"].strategy = "time"
    /\ inst["a"].startedAt = 1
    /\ clock = 2
    /\ mtime[F2] = 2
    /\ store.data["a"] = [type |-> "iso", val |-> 1]

(* C8 (as claimed): a filter(C) call of an instance that follows another   *)
(* filter(C) call of it, with no close() of it in between, returns what    *)
(* the first returned.                                                     *)
C8_SameResultTwice ==
    [][(last'.op = "filter" /\ memo.valid
            /\ memo.key = last'.key /\ memo.files = last'.files)
          => last'.out = memo.out]_vars

(* C8 (amended): ... with no close() of it and no write to a file or       *)
(* commit in between, returns what the first returned; the clock, the      *)
(* other keys and the other instances do not count.                        *)
C8_SameResultWhileUnchanged ==
    [][(last'.op = "filter" /\ memo.valid /\ ~memo.dirty
            /\ memo.key = last'.key /\ memo.files = last'.files)
          => last'.out = memo.out]_vars

C8_Witness ==
    /\ last.op = "filter" /\ last.key = "a"
    /\ memo.valid /\ ~memo.dirty /\ memo.out = last.out
    /\ last.out.files = <<F2, F3>>
    /\ inst["a"].startedAt < clock
    /\ store.data["b"].type = "iso"
    /\ store.data["b"] # store.data["a"]

(* C9: a filter() call, whether it returns a list or fails, leaves the     *)
(* state file as it was.                                                   *)
C9_FilterKeepsStore ==
    [][last'.op = "filter" => store' = store]_vars

C9_Witness ==
    /\ last.op = "filter"
    /\ last.out.kind = "error"
    /\ store.exists
    /\ store.data[last.key].type = "text"

(* C10 (as claimed): under the "git" strategy, with a marker that names no *)
(* commit, filter() fails: it returns no list.                             *)
C10_InvalidReferenceFails ==
    (last.op = "filter" /\ inst[last.key].strategy = "git"
        /\ ~MarkerAbsent(last.key)
        /\ ~(store.data[last.key].type = "rev"
                /\ store.data[last.key].val <= Len(commits)))
        => last.out.kind = "error"

(* C11: with a state file that is there and does not parse, a filter()     *)
(* call and a close() call both fail, and leave the file as it is: filter  *)
(* returns no list and close writes nothing.                               *)
C11_CorruptStateFails ==
    [][(store.exists /\ env.json = "corrupt" /\ last'.op \in {"filter", "close"})
          => /\ last'.out.kind = "error"
             /\ store' = store /\ env' = env]_vars

C11_Witness ==
    /\ store.exists /\ env.json = "corrupt"
    /\ last.op = "close" /\ last.out.kind = "error"
    /\ memo.valid /\ memo.key = last.key /\ memo.out.kind = "error"
    /\ store.data["a"] = Garbage

(* C12 (as claimed): an instance with the "git" strategy exists only where *)
(* git is installed and the directory is inside a repository.              *)
C12_GitInstanceNeedsRepository ==
    \A k \in KeyStrings :
        (inst[k].alive /\ inst[k].strategy = "git") => env.git = "ok"

(* C13 (as claimed): the construction of an instance with the "time"       *)
(* strategy, given or taken as the default, and a string as the key, does  *)
(* not fail, whatever the state of git.                                    *)
C13_TimeNeedsNoGit ==
    (last.op = "new" /\ last.key \in KeyStrings /\ options.strategy = "time")
        => last.out.kind # "error"

(* C14 (as claimed): no instance has the empty key, and the state file     *)
(* holds no entry under the empty key.                                     *)
C14_NoEmptyKey ==
    /\ ~inst[""].alive
    /\ Entry(store, "") = Absent

(* C15: the rules are evaluated once, against the ChangeSet: a returned    *)
(* candidate is changed itself or is the target of a rule whose source     *)
(* matches a changed path (or an all-activating rule matches one); with    *)
(* the rules 1 -> 2 and 2 -> 3 and file1 changed, file3 is not returned.   *)
C15_SinglePassTriggers ==
    (Filtered /\ ~MarkerAbsent(last.key) /\ ~AllFires(last.key))
        => \A i \in DOMAIN last.out.files :
               \/ last.out.files[i] \in Delta(last.key)
               \/ \E rule \in SomeRules :
                      /\ \E d \in Delta(last.key) : MatchSegs(addCwd(rule.source), d)
                      /\ MatchSegs(addCwd(rule.target), last.out.files[i])

C15_Witness ==
    /\ Filtered /\ ~MarkerAbsent(last.key)
    /\ inst[last.key].strategy = "git"
    /\ triggers = << Pair(P1, P2), Pair(P2, P3) >>
    /\ Delta(last.key) = {F1}
    /\ last.files = <<F1, F2, F3>>
    /\ last.out.files = <<F1, F2>>

\* the paths that changed since the marker of the key, in the whole tree
DeltaTree(key) ==
    LET m == store.data[key]
    IN  IF inst[key].strategy = "time"
        THEN { f \in TreeFiles : m.type = "iso" /\ mtime[f] > m.val }
        ELSE IF m.type = "rev" /\ m.val <= Len(commits)
             THEN { <<"repo">> \o q :
                      q \in UNION { commits[j] : j \in (m.val + 1)..Len(commits) } }
             ELSE {}

\* the file lies in the directory, or below it
InsideDir(f, dir) == Len(dir) < Len(f) /\ \A i \in DOMAIN dir : f[i] = dir[i]

\* the marker of the key is one the strategy can read
MarkerReadable(key) ==
    /\ store.exists
    /\ IF inst[key].strategy = "time"
       THEN store.data[key].type = "iso"
       ELSE store.data[key].type = "rev" /\ store.data[key].val <= Len(commits)

\* the patterns the triggers give for a change at the path d
TargetsFor(d) ==
    CASE options.triggers.kind = "array" ->
             { r.target : r \in { x \in Range(options.triggers.rules) :
                                     MatchSegs(x.source, relative(cwd, d)) } }
      [] options.triggers.kind = "function" ->
             IF relative(cwd, d) = options.triggers.includes
             THEN {options.triggers.returns} ELSE {}
      [] OTHER -> {}

(* C16: a changed path in the tracking root that is no candidate activates *)
(* the triggers it matches by its path relative to cwd: the candidates     *)
(* that match their targets are returned, and nothing but candidates is.   *)
C16_ChangeOutsideCandidatesTriggers ==
    (last.op = "filter" /\ MarkerReadable(last.key))
        => /\ last.out.kind = "list"
           /\ Range(last.out.files) \subseteq Range(last.files)
           /\ \A d \in DeltaTree(last.key) :
                  (InsideDir(d, triggersTrackingRoot)
                      /\ relative(cwd, d) \notin Range(last.files))
                  => \A i \in DOMAIN last.files :
                         (\E t \in TargetsFor(d) : MatchSegs(t, last.files[i]))
                             => last.files[i] \in Range(last.out.files)

C16_Witness ==
    /\ last.op = "filter" /\ MarkerReadable(last.key)
    /\ inst[last.key].strategy = "time"
    /\ cwd = <<"repo", "tests", "input", "folder">>
    /\ triggersTrackingRoot = <<"repo", "tests", "input">>
    /\ options.triggers.kind = "function"
    /\ DeltaTree(last.key) = {F2}
    /\ last.files = << <<"file3.txt">> >>
    /\ last.out.files = << <<"file3.txt">> >>

(* C17 (as claimed): every change handed to the triggers is a path inside  *)
(* the tracking root, under both strategies.                               *)
C17_OnlyChangesInsideRoot ==
    (last.op = "filter" /\ MarkerReadable(last.key)
        /\ options.triggers.kind # "undefined")
        => \A d \in IF inst[last.key].strategy = "time"
                    THEN modifiedBelowRoot(NewDate(store.data[last.key]))
                    ELSE diffBelowRoot(getGitChangesSince(store.data[last.key]).lines) :
               InsideDir(d, triggersTrackingRoot)

(* C18: the reader filters when the iterator is made, before any file is   *)
(* yielded, and yields the filtered files one by one; the state file is    *)
(* written by a next() call only, one that finds no file left, when every  *)
(* filtered file has been yielded; until then it is as it was.             *)
C18_StoreWrittenAfterLastFile ==
    [][/\ store' # store
           => /\ last'.op = "next" /\ reader.incremental
              /\ reader.files = <<>> /\ reader.read = reader.filtered
       /\ (last'.op = "iterator" /\ last'.out.kind = "list")
           => /\ reader'.filtered = last'.out.files
              /\ reader'.files = reader'.filtered /\ reader'.read = <<>>
       /\ last'.op = "next"
           => /\ reader'.filtered = reader.filtered
              /\ reader'.read \o reader'.files = reader.filtered]_vars

C18_Witness ==
    /\ last.op = "next" /\ reader.incremental /\ reader.state = "done"
    /\ reader.filtered = <<F2, F3>> /\ reader.read = <<F2, F3>>
    /\ store.exists /\ store.data["a"] = OwnMarker("a")
    /\ inst["a"].startedAt > 0

(* C19 (as claimed): an iterator calls close() once at most, however often *)
(* next() is called after it has reported done.                            *)
C19_ClosedOnce == reader.closes <= 1

(* C20: close() reads the state file, puts its marker into what it read    *)
(* and writes that: the file after the write holds the writer's marker     *)
(* and, for every other key, what the writer had read, whatever was        *)
(* written in between (the marker another instance wrote after the read    *)
(* is gone); neither the read nor the write fails.                         *)
C20_LastWriteWins ==
    [][/\ last'.op = "close_write"
           => /\ last'.out.kind # "error"
              /\ Entry(store', last'.key) = OwnMarker(last'.key)
              /\ \A k \in KeyStrings \ {last'.key} :
                     Entry(store', k) = closing[last'.key].data[k]
       /\ last'.op = "close_read"
           => /\ last'.out.kind # "error"
              /\ store' = store
              /\ \A k \in KeyStrings :
                     closing'[last'.key].data[k] = Entry(store, k)]_vars

C20_Witness ==
    /\ last.op = "close_write" /\ last.key = "a"
    /\ closing["b"].written /\ ~closing["b"].reading /\ inst["b"].alive
    /\ store.data["a"] = OwnMarker("a")
    /\ store.data["b"].type = "undefined"

(* C21: under the "git" strategy every close() saves, under the key of the *)
(* instance, the HEAD of the repository as it is at that close(): commits  *)
(* made since the instance was built or filtered are behind the marker,    *)
(* and a second close() saves the HEAD of its own moment.                  *)
C21_GitMarkerIsHeadAtClose ==
    [][(last'.op = "close" /\ inst[last'.key].strategy = "git")
          => /\ last'.out.kind # "error"
             /\ Entry(store', last'.key) = [type |-> "rev", val |-> Len(commits)]]_vars

C21_Witness ==
    /\ last.op = "close" /\ last.key = "a"
    /\ inst["a"].strategy = "git"
    /\ hist.owed # {}
    /\ Len(commits) = 2
    /\ store.data["a"] = [type |-> "rev", val |-> 2]

(* C23 (as claimed): under the "git" strategy a candidate committed after  *)
(* the filter() of a run and before its close() is returned by the         *)
(* filter() of the next run of the key.                                    *)
C23_NoCommitSkipped ==
    (last.op = "filter" /\ last.key = hist.key /\ hist.fresh
        /\ inst[last.key].strategy = "git")
        => \A f \in hist.owed :
               f \in Range(last.files) => f \in Range(last.out.files)

EntryKeys(file) ==
    IF file.exists THEN { k \in KeyStrings : file.data[k].type # "undefined" }
    ELSE {}

(* C22: when there is no state file, the next() call that ends a run of    *)
(* the reader with the incremental option makes the file, with one entry:  *)
(* under the key option when it is given, and else under the working       *)
(* directory and the pattern(s) joined by ':'.                             *)
C22_OneEntryUnderTheKey ==
    [][(~store.exists /\ last'.op = "next" /\ reader.incremental
            /\ reader.files = <<>>)
          => /\ store'.exists
             /\ EntryKeys(store') =
                    { IF reader.options.key.type = "string"
                      THEN reader.options.key.val
                      ELSE IF reader.options.pattern.array
                      THEN "tests/input:**/file1.txt:folder/*"
                      ELSE "tests/input:**/file*.txt" }]_vars

====
